---- MODULE Spec2Model ----
(***************************************************************************)
(* SentencePredictionCriterion (fairseq/criterions/sentence_prediction.py). *)
(*                                                                         *)
(* Numbers.  A loss is the real number  i + ln(a/b)  with i, a, b integers, *)
(* kept as the record [i, a, b, tensor].  Classification logits are taken   *)
(* from rows <<ln w1, ln w2>> with positive integer weights w, so that      *)
(* softmax is the rational w_k / (w1 + w2) and log_softmax is the logarithm *)
(* of that rational, kept as the pair <<w_k, w1 + w2>>.  "tensor" records   *)
(* whether the Python value is a torch tensor (division by zero gives       *)
(* inf/nan) or a Python number (division by zero raises).                   *)
(*                                                                         *)
(* A logging dictionary is a record with a field "keys", the set of keys   *)
(* the Python dict holds; the other fields are read only through Get.       *)
(***************************************************************************)
EXTENDS Integers, Sequences, FiniteSets

\* ---------------------------------------------------------------- bounds
MaxWorkers == 2      \* logging dictionaries handed to one reduce_metrics call
MaxExamples == 2     \* examples over all the batches of one training step

\* ------------------------------------------------------- input alphabets
LogitRows == { <<1, 1>>, <<1, 2>> }   \* weights w of a logits row <<ln w1, ln w2>>
Labels == {0, 1}                      \* class indices / regression targets
RegLogits == {0, 1}                   \* regression outputs of the head
SampleNTokens == {2, 3}               \* sample["ntokens"]
HeadName == "sentence_classification_head"
Models ==
    { [hasHeads |-> FALSE, heads |-> {}],
      [hasHeads |-> TRUE,  heads |-> {}],
      [hasHeads |-> TRUE,  heads |-> {"other_head"}],
      [hasHeads |-> TRUE,  heads |-> {HeadName, "other_head"}] }

\* ------------------------------------------------------ sequence helpers
RECURSIVE SeqSum(_)
SeqSum(s) == IF s = <<>> THEN 0 ELSE s[1] + SeqSum(Tail(s))

RECURSIVE SeqProd(_)
SeqProd(s) == IF s = <<>> THEN 1 ELSE s[1] * SeqProd(Tail(s))

RECURSIVE view_flat(_)
\* tensor.view(-1): the rows of a 2-D tensor laid out one after the other
view_flat(rows) == IF rows = <<>> THEN <<>> ELSE rows[1] \o view_flat(Tail(rows))

numel(t) == Len(t)

\* ------------------------------------------------------------ loss values
PyZero == [i |-> 0, a |-> 1, b |-> 1, tensor |-> FALSE]
PyInt(n) == [i |-> n, a |-> 1, b |-> 1, tensor |-> FALSE]
TensorInt(n) == [i |-> n, a |-> 1, b |-> 1, tensor |-> TRUE]
\* x + y of Python: a tensor if either side is one
Add(x, y) ==
    [i |-> x.i + y.i, a |-> x.a * y.a, b |-> x.b * y.b, tensor |-> x.tensor \/ y.tensor]

\* --------------------------------------------------------------- forward
\* a slip in the assert: "or" for "and"
assert_head_or(model, name) == model.hasHeads \/ name \in model.heads

\* the assert of forward
assert_head(model, name) == model.hasHeads /\ name \in model.heads

\* an argmax that takes the last maximal index of a row
argmax_row_last(row) ==
    (CHOOSE k \in 1..Len(row) :
        /\ \A j \in 1..Len(row) : row[j] <= row[k]
        /\ \A j \in (k + 1)..Len(row) : row[j] < row[k]) - 1

\* logits.argmax(dim=1): the first maximal index of each row, 0-based
argmax_row(row) ==
    (CHOOSE k \in 1..Len(row) :
        /\ \A j \in 1..Len(row) : row[j] <= row[k]
        /\ \A j \in 1..(k - 1) : row[j] < row[k]) - 1
argmax(logits) == [n \in 1..Len(logits) |-> argmax_row(logits[n])]

\* F.log_softmax(logits, dim=-1): entry k of a row is ln(w_k / sum of w)
log_softmax(logits) ==
    [n \in 1..Len(logits) |->
        [k \in 1..Len(logits[n]) |-> << logits[n][k], SeqSum(logits[n]) >>]]

\* lprobs[arange(B), targets]: the log-probability of each example's target
gather(lprobs, targets) == [n \in 1..Len(lprobs) |-> lprobs[n][targets[n] + 1]]

\* F.nll_loss(lprobs, targets, reduction="sum") = - sum ln(w_t / W) = ln(prod W / prod w_t)
nll_loss(lprobs, targets) ==
    [i |-> 0,
     a |-> SeqProd([n \in 1..Len(lprobs) |-> gather(lprobs, targets)[n][2]]),
     b |-> SeqProd([n \in 1..Len(lprobs) |-> gather(lprobs, targets)[n][1]]),
     tensor |-> TRUE]

\* F.mse_loss(logits, targets, reduction="sum")
mse_loss(logits, targets) ==
    TensorInt(SeqSum([n \in 1..Len(logits) |->
                        (logits[n] - targets[n]) * (logits[n] - targets[n])]))

\* (preds == targets).sum()
count_equal(preds, targets) ==
    Cardinality({n \in 1..Len(preds) : preds[n] = targets[n]})

EmptyLog ==
    [keys |-> {}, loss |-> PyZero, ntokens |-> 0, nsentences |-> 0, sample_size |-> 0,
     ncorrect |-> PyZero, p |-> <<>>, targets |-> <<>>, pred |-> <<>>]

\* a logging dictionary whose "nsentences" is the token count
logging_output_base_ntokens(loss, ntokens, sample_size) ==
    [EmptyLog EXCEPT !.keys = {"loss", "ntokens", "nsentences", "sample_size"},
                     !.loss = loss, !.ntokens = ntokens,
                     !.nsentences = ntokens, !.sample_size = sample_size]

\* the four fields every logging dictionary of forward has
logging_output_base(loss, ntokens, sample_size) ==
    [EmptyLog EXCEPT !.keys = {"loss", "ntokens", "nsentences", "sample_size"},
                     !.loss = loss, !.ntokens = ntokens,
                     !.nsentences = sample_size, !.sample_size = sample_size]

\* forward(model, sample): what the call leaves behind.  sample.target holds one
\* row of labels per example, sample.logits is what the model call returns.
forward(name, regression_target, model, sample) ==
    IF ~assert_head(model, name)
    THEN [raised |-> "AssertionError", invoked |-> FALSE, targetsRead |-> FALSE,
          ret |-> <<>>]
    ELSE
      LET logits == sample.logits
          targets == view_flat(sample.target)
          sample_size == numel(targets)
          lprobs == log_softmax(logits)
          loss == IF ~regression_target
                  THEN nll_loss(lprobs, targets)
                  ELSE mse_loss(view_flat(logits), targets)
          base == logging_output_base(loss, sample.ntokens, sample_size)
          preds == argmax(logits)
          logging_output ==
              IF ~regression_target
              THEN [base EXCEPT !.keys = @ \cup {"p", "ncorrect", "targets", "pred"},
                                !.p = gather(lprobs, targets),
                                !.ncorrect = TensorInt(count_equal(preds, targets)),
                                !.targets = targets,
                                !.pred = preds]
              ELSE [base EXCEPT !.keys = @ \cup {"targets", "pred"},
                                !.targets = targets,
                                !.pred = view_flat(logits)]
      IN [raised |-> "none", invoked |-> TRUE, targetsRead |-> TRUE,
          ret |-> << [loss |-> loss, sample_size |-> sample_size,
                      logging_output |-> logging_output] >>]

\* -------------------------------------------------------- reduce_metrics
\* log.get(k, default)
Get(log, k, default) == IF k \in log.keys THEN log[k] ELSE default

RECURSIVE sum_int(_, _)
\* sum(log.get(k, 0) for log in logging_outputs) for the integer fields
sum_int(logs, k) ==
    IF logs = <<>> THEN 0
    ELSE sum_int(SubSeq(logs, 1, Len(logs) - 1), k) + Get(logs[Len(logs)], k, 0)

RECURSIVE sum_val(_, _)
\* the same sum for "loss" and "ncorrect", which forward stores as tensors
sum_val(logs, k) ==
    IF logs = <<>> THEN PyZero
    ELSE Add(sum_val(SubSeq(logs, 1, Len(logs) - 1), k), Get(logs[Len(logs)], k, PyZero))

\* x / n raises ZeroDivisionError for Python numbers; a tensor gives inf or nan
div_raises(x, n) == n = 0 /\ ~x.tensor

\* the value x / n, and x / n / math.log(2) when ln2
quotient(x, n, ln2) == [num |-> x, den |-> n, ln2 |-> ln2]

\* 100.0 * x
times100(x) == [x EXCEPT !.i = 100 * @]

\* metrics.log_scalar(key, value, weight): one entry written to the sink
log_scalar(key, value, weight) == [key |-> key, value |-> value, weight |-> weight]

RECURSIVE concat_arrays(_, _)
concat_arrays(logs, k) ==
    IF logs = <<>> THEN <<>> ELSE logs[1][k] \o concat_arrays(Tail(logs), k)

\* np.concatenate([log.get(k) for log in logging_outputs]): a missing key gives
\* None in the list, and np.concatenate raises on it
concatenate(logs, k) ==
    IF \E n \in 1..Len(logs) : k \notin logs[n].keys
    THEN [ok |-> FALSE, arr |-> <<>>]
    ELSE [ok |-> TRUE, arr |-> concat_arrays(logs, k)]

SumSq(x) == SeqSum([n \in 1..Len(x) |-> x[n] * x[n]])
Dot(x, y) == SeqSum([n \in 1..Len(x) |-> x[n] * y[n]])
\* n^2 times the variance of x
ScaledVar(x) == Len(x) * SumSq(x) - SeqSum(x) * SeqSum(x)

\* a guard that lets zero variance through
std_not_negative(pred) == Len(pred) > 0 /\ ScaledVar(pred) >= 0

\* pred.std() > 0 (the std of an empty array is nan, and nan > 0 is False)
std_positive(pred) == Len(pred) > 0 /\ ScaledVar(pred) > 0

\* np.corrcoef(x, y)[1,0] of two integer arrays: num / sqrt(dx * dy), nan when
\* dx * dy = 0; it raises ValueError when the lengths differ
corrcoef(x, y) ==
    [num |-> Len(x) * Dot(x, y) - SeqSum(x) * SeqSum(y),
     dx |-> ScaledVar(x), dy |-> ScaledVar(y)]
\* np.corrcoef(p, t)[1,0] where p holds logarithms: kept as the term itself
corrcoef_log(p, t) == [x |-> p, y |-> t]
corrcoef_raises(x, y) == Len(x) # Len(y)

CountOf(x, c) == Cardinality({n \in 1..Len(x) : x[n] = c})
ClassesOf(x) == {x[n] : n \in 1..Len(x)}
RECURSIVE SetSum(_, _)
\* the sum of F[c] over the c of S
SetSum(S, F) ==
    IF S = {} THEN 0 ELSE LET c == CHOOSE x \in S : TRUE IN F[c] + SetSum(S \ {c}, F)

\* sklearn matthews_corrcoef(y_true, y_pred): cov(t,p) / sqrt(cov(t,t) * cov(p,p))
\* from the confusion matrix, 0.0 when the denominator is 0
matthews_corrcoef(t, pred) ==
    LET C == ClassesOf(t) \cup ClassesOf(pred)
        n == Len(t)
        tp == [c \in C |-> CountOf(t, c) * CountOf(pred, c)]
        tt == [c \in C |-> CountOf(t, c) * CountOf(t, c)]
        pp == [c \in C |-> CountOf(pred, c) * CountOf(pred, c)]
    IN [num |-> count_equal(pred, t) * n - SetSum(C, tp),
        dx |-> n * n - SetSum(C, tt), dy |-> n * n - SetSum(C, pp)]

\* the body of the try block: the entries it writes, and the exception that
\* ends it ("none" when it runs to its end)
corr_metrics(pred, t, p) ==
    IF ~std_positive(pred) THEN [raised |-> "none", logged |-> <<>>]
    ELSE IF corrcoef_raises(pred, t) THEN [raised |-> "ValueError", logged |-> <<>>]
    ELSE IF corrcoef_raises(p, t)
         THEN [raised |-> "ValueError",
               logged |-> << log_scalar("corr", corrcoef(pred, t), 1) >>]
    ELSE [raised |-> "none",
          logged |-> << log_scalar("corr", corrcoef(pred, t), 1),
                        log_scalar("corrp", corrcoef_log(p, t), 1),
                        log_scalar("mcorr", matthews_corrcoef(t, pred), 1) >>]

\* a try block without its except clause
except_reraise(r) == r

\* except: pass
except_pass(r) == [raised |-> "none", logged |-> r.logged]

\* reduce_metrics(logging_outputs): the entries written to the metrics sink, in
\* order, and the exception that ended the call ("none" when it returned)
reduce_metrics(logging_outputs) ==
    LET loss_sum == sum_val(logging_outputs, "loss")
        ntokens == sum_int(logging_outputs, "ntokens")
        nsentences == sum_int(logging_outputs, "nsentences")
        sample_size == sum_int(logging_outputs, "sample_size")
        s1 == << log_scalar("loss", quotient(loss_sum, sample_size, TRUE), sample_size) >>
        s2 == IF sample_size # ntokens
              THEN Append(s1, log_scalar("nll_loss", quotient(loss_sum, ntokens, TRUE), ntokens))
              ELSE s1
        ncorrect == sum_val(logging_outputs, "ncorrect")
        s3 == Append(s2, log_scalar("accuracy",
                                    quotient(times100(ncorrect), nsentences, FALSE),
                                    nsentences))
        pred == concatenate(logging_outputs, "pred")
        t == concatenate(logging_outputs, "targets")
        p == concatenate(logging_outputs, "p")
    IN  IF div_raises(loss_sum, sample_size)
        THEN [raised |-> "ZeroDivisionError", logged |-> <<>>]
        ELSE IF sample_size # ntokens /\ div_raises(loss_sum, ntokens)
        THEN [raised |-> "ZeroDivisionError", logged |-> s1]
        ELSE IF Len(logging_outputs) > 0 /\ "p" \in logging_outputs[1].keys
        THEN IF div_raises(ncorrect, nsentences)
             THEN [raised |-> "ZeroDivisionError", logged |-> s2]
             ELSE IF ~pred.ok \/ ~t.ok \/ ~p.ok
             THEN [raised |-> "ValueError", logged |-> s3]
             ELSE LET r == except_pass(corr_metrics(pred.arr, t.arr, p.arr))
                  IN [raised |-> r.raised, logged |-> s3 \o r.logged]
        ELSE [raised |-> "none",
              logged |-> Append(s2, log_scalar("mse", quotient(loss_sum, sample_size, FALSE),
                                               sample_size))]

\* logging_outputs_can_be_summed()
logging_outputs_can_be_summed == TRUE

\* ----------------------------------------------- summing across workers
\* x + y of two 1-D numpy arrays: element by element, a length-1 array is
\* broadcast, any other pair of different lengths raises ValueError
broadcastable(x, y) == Len(x) = Len(y) \/ Len(x) = 1 \/ Len(y) = 1
IntPlus(u, v) == u + v
\* ln(u1/u2) + ln(v1/v2)
LogPlus(u, v) == << u[1] * v[1], u[2] * v[2] >>
array_add(x, y, logarithms) ==
    [n \in 1..(IF Len(x) = 1 THEN Len(y) ELSE Len(x)) |->
        LET u == x[IF Len(x) = 1 THEN 1 ELSE n]
            v == y[IF Len(y) = 1 THEN 1 ELSE n]
        IN IF logarithms THEN LogPlus(u, v) ELSE IntPlus(u, v)]

\* the sum of two logging dictionaries with the same keys, field by field
log_add(x, y) ==
    [keys |-> x.keys,
     loss |-> Add(x.loss, y.loss),
     ntokens |-> x.ntokens + y.ntokens,
     nsentences |-> x.nsentences + y.nsentences,
     sample_size |-> x.sample_size + y.sample_size,
     ncorrect |-> Add(x.ncorrect, y.ncorrect),
     p |-> array_add(x.p, y.p, TRUE),
     targets |-> array_add(x.targets, y.targets, FALSE),
     pred |-> array_add(x.pred, y.pred, FALSE)]
log_add_raises(x, y) ==
    ~(broadcastable(x.p, y.p) /\ broadcastable(x.targets, y.targets)
      /\ broadcastable(x.pred, y.pred))

RECURSIVE sum_logs(_)
\* the logging dictionaries of the workers summed into one, as the host may do
\* before reduce_metrics when logging_outputs_can_be_summed() is True
sum_logs(logs) ==
    IF Len(logs) = 1 THEN [ok |-> TRUE, log |-> logs[1]]
    ELSE LET head == sum_logs(SubSeq(logs, 1, Len(logs) - 1))
         IN IF ~head.ok \/ log_add_raises(head.log, logs[Len(logs)])
            THEN [ok |-> FALSE, log |-> EmptyLog]
            ELSE [ok |-> TRUE, log |-> log_add(head.log, logs[Len(logs)])]

\* ------------------------------------------------------------ the inputs
ScalarLog(loss, ntokens, nsentences, sample_size) ==
    [EmptyLog EXCEPT !.keys = {"loss", "ntokens", "nsentences", "sample_size"},
                     !.loss = PyInt(loss), !.ntokens = ntokens,
                     !.nsentences = nsentences, !.sample_size = sample_size]
ClassLog(p, pred, targets) ==
    [ScalarLog(1, 3, 2, 2) EXCEPT !.keys = @ \cup {"ncorrect", "p", "pred", "targets"},
                                  !.ncorrect = PyInt(1),
                                  !.p = p, !.pred = pred, !.targets = targets]
Without(log, k) == [log EXCEPT !.keys = @ \ {k}]
GoodClassLog == ClassLog(<< <<1, 2>>, <<1, 3>> >>, <<0, 1>>, <<0, 0>>)

\* logging dictionaries reduce_metrics may be handed besides those of forward:
\* it reads every field with log.get, so any of them may be missing
OtherLogs ==
    { EmptyLog,
      [EmptyLog EXCEPT !.keys = {"sample_size"}, !.sample_size = 1],
      ScalarLog(3, 2, 1, 1),
      ScalarLog(2, 1, 1, 1),
      GoodClassLog,
      Without(GoodClassLog, "pred"),
      Without(GoodClassLog, "targets"),
      Without(GoodClassLog, "p"),
      Without(GoodClassLog, "nsentences"),
      ClassLog(<< <<1, 2>> >>, <<0, 1>>, <<1, 0>>),
      ClassLog(<< <<1, 2>> >>, <<0, 1>>, <<1>>) }

\* the samples of batch size B and what the model returns for them: one row of
\* class logits per example, or one regression output per example
Samples(regression, B) ==
    [logits : [1..B -> IF regression THEN {<<l>> : l \in RegLogits} ELSE LogitRows],
     target : [1..B -> {<<l>> : l \in Labels}],
     ntokens : SampleNTokens]

Examples(logs) == Len(concat_arrays(logs, "targets"))

\* ------------------------------------------------------------- the state
VARIABLES
    regression_target,  \* self.regression_target
    logging_outputs,    \* the logging dictionaries collected in this step
    unsummed,           \* the dictionaries before the host summed them, or <<>>
    metrics,            \* what the last reduce_metrics call wrote to the sink
    call,               \* the last call and how it ended
    pc                  \* "collect" until reduce_metrics has run, then "reduced"

vars == << regression_target, logging_outputs, unsummed, metrics, call, pc >>

NoModel == [hasHeads |-> FALSE, heads |-> {}]
NoSample == [logits |-> <<>>, target |-> <<>>, ntokens |-> 0]
NoCall ==
    [op |-> "none", raised |-> "none", model |-> NoModel, sample |-> NoSample,
     invoked |-> FALSE, targetsRead |-> FALSE, ret |-> <<>>, args |-> <<>>]

Init ==
    /\ regression_target \in BOOLEAN
    /\ logging_outputs = <<>>
    /\ unsummed = <<>>
    /\ metrics = <<>>
    /\ call = NoCall
    /\ pc = "collect"

\* one worker runs forward on its batch; the host keeps the logging output
Forward(model, sample) ==
    /\ pc = "collect"
    /\ unsummed = <<>>
    /\ Len(logging_outputs) < MaxWorkers
    /\ LET r == forward(HeadName, regression_target, model, sample)
       IN /\ call' = [NoCall EXCEPT !.op = "forward", !.raised = r.raised,
                                    !.model = model,
                                    !.sample = IF r.targetsRead THEN sample ELSE NoSample,
                                    !.invoked = r.invoked,
                                    !.targetsRead = r.targetsRead, !.ret = r.ret]
          /\ logging_outputs' = IF r.raised = "none"
                                THEN Append(logging_outputs, r.ret[1].logging_output)
                                ELSE logging_outputs
    /\ UNCHANGED << regression_target, unsummed, metrics, pc >>

\* a logging dictionary that does not come from this criterion's forward
Collect(log) ==
    /\ pc = "collect"
    /\ unsummed = <<>>
    /\ Len(logging_outputs) < MaxWorkers
    /\ Examples(logging_outputs) + Len(log.targets) <= MaxExamples
    /\ logging_outputs' = Append(logging_outputs, log)
    /\ call' = [NoCall EXCEPT !.op = "collect"]
    /\ UNCHANGED << regression_target, unsummed, metrics, pc >>

\* the host sums the workers' dictionaries before the reduction
SumAcrossWorkers ==
    /\ pc = "collect"
    /\ unsummed = <<>>
    /\ logging_outputs_can_be_summed
    /\ Len(logging_outputs) >= 1
    /\ \A n \in 1..Len(logging_outputs) : logging_outputs[n].keys = logging_outputs[1].keys
    /\ LET s == sum_logs(logging_outputs)
       IN IF s.ok
          THEN /\ logging_outputs' = << s.log >>
               /\ unsummed' = logging_outputs
               /\ call' = [NoCall EXCEPT !.op = "sum"]
               /\ pc' = pc
          ELSE /\ call' = [NoCall EXCEPT !.op = "sum", !.raised = "ValueError"]
               /\ pc' = "failed"
               /\ UNCHANGED << logging_outputs, unsummed >>
    /\ UNCHANGED << regression_target, metrics >>

\* reduce_metrics(logging_outputs)
ReduceMetrics ==
    /\ pc = "collect"
    /\ LET r == reduce_metrics(logging_outputs)
       IN /\ metrics' = r.logged
          /\ call' = [NoCall EXCEPT !.op = "reduce_metrics", !.raised = r.raised,
                                    !.args = logging_outputs]
    /\ pc' = "reduced"
    /\ UNCHANGED << regression_target, logging_outputs, unsummed >>

Next ==
    \/ /\ pc = "collect" /\ unsummed = <<>> /\ Len(logging_outputs) < MaxWorkers
       /\ \E model \in Models, B \in 0..(MaxExamples - Examples(logging_outputs)) :
             \E sample \in Samples(regression_target, B) : Forward(model, sample)
    \/ /\ pc = "collect" /\ unsummed = <<>> /\ Len(logging_outputs) < MaxWorkers
       /\ \E log \in OtherLogs : Collect(log)
    \/ SumAcrossWorkers
    \/ ReduceMetrics

Spec == Init /\ [][Next]_vars

\* ------------------------------------------------------------ the claims
Reduced == pc = "reduced"
Args == call.args
Times(key) == Cardinality({n \in 1..Len(metrics) : metrics[n].key = key})
EntryOf(key) == metrics[CHOOSE n \in 1..Len(metrics) : metrics[n].key = key]

RECURSIVE TotalInt(_, _)
TotalInt(logs, k) ==
    IF logs = <<>> THEN 0
    ELSE (IF k \in logs[1].keys THEN logs[1][k] ELSE 0) + TotalInt(Tail(logs), k)

RECURSIVE TotalVal(_, _)
TotalVal(logs, k) ==
    IF logs = <<>> THEN PyZero
    ELSE LET x == IF k \in logs[1].keys THEN logs[1][k] ELSE PyZero
             rest == TotalVal(Tail(logs), k)
         IN [i |-> x.i + rest.i, a |-> x.a * rest.a, b |-> x.b * rest.b,
             tensor |-> x.tensor \/ rest.tensor]

Permutations(n) == {f \in [1..n -> 1..n] : \A i, j \in 1..n : f[i] = f[j] => i = j}
Permuted(logs, f) == [n \in 1..Len(logs) |-> logs[f[n]]]
EntriesOf(logged, key) == {logged[n] : n \in {m \in 1..Len(logged) : logged[m].key = key}}

\* forward stores loss.data, a tensor; the other dictionaries hold Python numbers
IsForwardOutput(log) == "loss" \in log.keys /\ log.loss.tensor
FromForward(logs) == \A n \in 1..Len(logs) : IsForwardOutput(logs[n])
ForwardReturned == call.op = "forward" /\ call.raised = "none"
OnClassificationPath == Len(Args) > 0 /\ "p" \in Args[1].keys
SomeKeyMissing ==
    \E n \in 1..Len(Args) : {"pred", "targets", "p"} \ Args[n].keys # {}
ZeroDenominator ==
    \/ TotalInt(Args, "sample_size") = 0
    \/ TotalInt(Args, "ntokens") = 0
    \/ TotalInt(Args, "nsentences") = 0

\* C1: for a non-empty list, "loss" is logged exactly once, with the value
\* (sum of loss) / (sum of sample_size) / ln 2 and the weight sum of sample_size,
\* whatever the order of the dictionaries
C1_LossOfNonEmptyList ==
    (Reduced /\ Len(Args) > 0) =>
        /\ Times("loss") = 1
        /\ EntryOf("loss").value =
              [num |-> TotalVal(Args, "loss"), den |-> TotalInt(Args, "sample_size"),
               ln2 |-> TRUE]
        /\ EntryOf("loss").weight = TotalInt(Args, "sample_size")
        /\ \A f \in Permutations(Len(Args)) :
              EntriesOf(reduce_metrics(Permuted(Args, f)).logged, "loss") = {EntryOf("loss")}

\* C2: every call of reduce_metrics returns without raising and has logged "loss"
C2_AlwaysLogsLoss ==
    Reduced => (call.raised = "none" /\ Times("loss") >= 1)

\* C3: reducing the sum of the workers' dictionaries logs the same metrics with
\* the same values as reducing the dictionaries themselves
C3_SummedReductionAgrees ==
    (Reduced /\ unsummed # <<>> /\ FromForward(unsummed)) =>
        LET r == reduce_metrics(unsummed)
        IN /\ call.raised = r.raised
           /\ Len(metrics) = Len(r.logged)
           /\ \A n \in 1..Len(metrics) :
                 /\ metrics[n].key = r.logged[n].key
                 /\ metrics[n].weight = r.logged[n].weight
                 /\ metrics[n].value = r.logged[n].value

\* C4: "nll_loss" is logged if and only if the summed sample_size differs from
\* the summed ntokens, and then with value (sum of loss) / ntokens / ln 2 and
\* weight ntokens
C4_NllLossIffSizesDiffer ==
    Reduced =>
        /\ (Times("nll_loss") = 1) <=>
              (TotalInt(Args, "sample_size") # TotalInt(Args, "ntokens"))
        /\ (TotalInt(Args, "sample_size") = TotalInt(Args, "ntokens")) =>
              Times("nll_loss") = 0
        /\ (Times("nll_loss") = 1) =>
              /\ EntryOf("nll_loss").value =
                    [num |-> TotalVal(Args, "loss"), den |-> TotalInt(Args, "ntokens"),
                     ln2 |-> TRUE]
              /\ EntryOf("nll_loss").weight = TotalInt(Args, "ntokens")

\* C5: forward on a model without the attribute classification_heads, or whose
\* heads lack the configured name, ends in the assertion: the model has not been
\* called, the targets have not been read, nothing is returned
C5_AssertionFires ==
    (call.op = "forward" /\ (~call.model.hasHeads \/ HeadName \notin call.model.heads)) =>
        /\ call.raised = "AssertionError"
        /\ ~call.invoked
        /\ ~call.targetsRead
        /\ call.ret = <<>>
C5_Witness ==
    /\ call.op = "forward" /\ call.raised = "AssertionError"
    /\ call.model.hasHeads /\ HeadName \notin call.model.heads
    /\ Len(logging_outputs) >= 1

\* C6: when the concatenated predictions of the workers' dictionaries (those
\* forward returns) all carry the same label,
\* reduce_metrics returns, writes none of corr, corrp, mcorr, and writes loss
\* and accuracy
AllPredictionsEqual(logs) ==
    LET pred == concat_arrays(logs, "pred")
    IN Len(pred) >= 1 /\ \A n \in 1..Len(pred) : pred[n] = pred[1]
C6_ZeroVarianceOmitsCorrelations ==
    (Reduced /\ OnClassificationPath /\ FromForward(Args) /\ AllPredictionsEqual(Args)) =>
        /\ call.raised = "none"
        /\ Times("corr") = 0 /\ Times("corrp") = 0 /\ Times("mcorr") = 0
        /\ Times("loss") = 1 /\ Times("accuracy") = 1
C6_Witness ==
    /\ Reduced /\ OnClassificationPath /\ FromForward(Args) /\ Len(Args) >= 2
    /\ AllPredictionsEqual(Args) /\ Len(concat_arrays(Args, "pred")) >= 2
    /\ \E n \in 1..Len(Args) : \E m \in 1..Len(Args[n].targets) :
          Args[n].targets[m] # Args[n].pred[m]
    /\ call.raised = "none" /\ Times("accuracy") = 1

\* C7, as claimed: on the classification path reduce_metrics never raises, also
\* when a dictionary lacks p, pred or targets or the arrays differ in length
\* (the denominators being non-zero)
C7_NeverRaisesOnClassificationPath ==
    (Reduced /\ OnClassificationPath /\ ~ZeroDenominator) => call.raised = "none"

\* C7, as amended: on the classification path an exception raised inside the try
\* block (arrays of different lengths) is swallowed and the metric that failed
\* and those after it are omitted; a dictionary that lacks pred, targets or p
\* makes reduce_metrics raise, the concatenations being outside the try block
C7_OnlyTheTryBlockIsSwallowed ==
    (Reduced /\ OnClassificationPath) =>
        LET pred == concat_arrays(Args, "pred")
            t == concat_arrays(Args, "targets")
            p == concat_arrays(Args, "p")
        IN /\ SomeKeyMissing => call.raised \in {"ValueError", "ZeroDivisionError"}
           /\ (SomeKeyMissing /\ ~ZeroDenominator) =>
                 (call.raised = "ValueError" /\ Times("accuracy") = 1 /\ Times("corr") = 0)
           /\ (call.raised = "ZeroDivisionError") => ZeroDenominator
           /\ (~SomeKeyMissing /\ ~ZeroDenominator) =>
                 /\ call.raised = "none"
                 /\ Times("loss") = 1 /\ Times("accuracy") = 1
                 /\ (Len(pred) # Len(t)) => Times("corr") = 0
                 /\ (Len(pred) # Len(t) \/ Len(p) # Len(t)) =>
                       (Times("corrp") = 0 /\ Times("mcorr") = 0)
C7_Witness ==
    /\ Reduced /\ OnClassificationPath /\ ~SomeKeyMissing /\ ~ZeroDenominator
    /\ Len(concat_arrays(Args, "p")) # Len(concat_arrays(Args, "targets"))
    /\ Len(concat_arrays(Args, "pred")) = Len(concat_arrays(Args, "targets"))
    /\ call.raised = "none"
    /\ Times("corr") = 1 /\ Times("corrp") = 0 /\ Times("mcorr") = 0

\* C8: in classification mode ncorrect is the number of examples whose first
\* maximal logit is at the target's index; 0 <= ncorrect <= sample_size, and
\* pred, targets and p have sample_size entries each
FirstMaximalIndex(row) ==
    LET maximal == {k \in 1..Len(row) : \A j \in 1..Len(row) : row[j] <= row[k]}
    IN (CHOOSE k \in maximal : \A j \in maximal : k <= j) - 1
C8_NCorrectCountsArgmaxHits ==
    (ForwardReturned /\ ~regression_target) =>
        LET out == call.ret[1].logging_output
            B == Len(call.sample.logits)
            hits == {n \in 1..B :
                        FirstMaximalIndex(call.sample.logits[n]) = call.sample.target[n][1]}
        IN /\ "ncorrect" \in out.keys
           /\ out.ncorrect.i = Cardinality(hits)
           /\ out.ncorrect.a = 1 /\ out.ncorrect.b = 1
           /\ 0 <= out.ncorrect.i /\ out.ncorrect.i <= call.ret[1].sample_size
           /\ {"pred", "targets", "p"} \subseteq out.keys
           /\ Len(out.pred) = call.ret[1].sample_size
           /\ Len(out.targets) = call.ret[1].sample_size
           /\ Len(out.p) = call.ret[1].sample_size
C8_Witness ==
    /\ ForwardReturned /\ ~regression_target
    /\ call.ret[1].sample_size >= 2
    /\ \E n \in 1..Len(call.sample.logits) :
          call.sample.logits[n][1] = call.sample.logits[n][2]
    /\ call.ret[1].logging_output.ncorrect.i >= 1
    /\ call.ret[1].logging_output.ncorrect.i < call.ret[1].sample_size

\* C9: a forward that returns, in either mode, returns as sample_size the number
\* of target labels of the batch; the dictionary's sample_size and nsentences
\* equal it and its ntokens is the sample's
C9_SampleSizeIsLabelCount ==
    ForwardReturned =>
        LET out == call.ret[1].logging_output
            labels == SeqSum([n \in 1..Len(call.sample.target) |->
                                Len(call.sample.target[n])])
        IN /\ call.ret[1].sample_size = labels
           /\ {"sample_size", "nsentences", "ntokens"} \subseteq out.keys
           /\ out.sample_size = call.ret[1].sample_size
           /\ out.nsentences = call.ret[1].sample_size
           /\ out.ntokens = call.sample.ntokens
C9_Witness ==
    /\ ForwardReturned /\ regression_target
    /\ call.ret[1].sample_size >= 2
    /\ call.sample.ntokens # call.ret[1].sample_size
    /\ Len(logging_outputs) = 2

\* C10: on a non-empty list with non-zero summed sample_size reduce_metrics logs
\* exactly one of accuracy and mse: accuracy = 100 * ncorrect / nsentences when
\* the first dictionary has the key p, mse = loss / sample_size and no accuracy,
\* corr, corrp, mcorr otherwise; forward puts p in its dictionary exactly in
\* classification mode
C10_AccuracyXorMse ==
    /\ (Reduced /\ Len(Args) > 0 /\ TotalInt(Args, "sample_size") # 0) =>
          IF "p" \in Args[1].keys
          THEN /\ Times("accuracy") = 1 /\ Times("mse") = 0
               /\ EntryOf("accuracy").value =
                     [num |-> [TotalVal(Args, "ncorrect") EXCEPT !.i = 100 * @],
                      den |-> TotalInt(Args, "nsentences"), ln2 |-> FALSE]
          ELSE /\ Times("mse") = 1 /\ Times("accuracy") = 0
               /\ Times("corr") = 0 /\ Times("corrp") = 0 /\ Times("mcorr") = 0
               /\ EntryOf("mse").value =
                     [num |-> TotalVal(Args, "loss"),
                      den |-> TotalInt(Args, "sample_size"), ln2 |-> FALSE]
    /\ ForwardReturned =>
          (("p" \in call.ret[1].logging_output.keys) <=> ~regression_target)
====
